---- MODULE Spec2Model ----
(***************************************************************************)
(* A model of the recursive-descent GraphQL parser (package parser).       *)
(*                                                                         *)
(* Every Go function of the parser is an operator of the same name that    *)
(* takes the Parser value and returns the record                           *)
(*     [parser |-> the Parser afterwards, node |-> the value returned,     *)
(*      err |-> the error returned]                                        *)
(* so the pointer receiver's mutation is threaded explicitly.  The         *)
(* top-level loop of parseDocument is the state machine: one action per    *)
(* branch of the loop body.                                                *)
(*                                                                         *)
(* Two history fields are carried in the Parser record and are read only   *)
(* by properties: Calls (the offsets handed to the tokenizer, in order)    *)
(* and Built (every AST node constructed, in order of construction).       *)
(***************************************************************************)
EXTENDS Integers, Sequences, FiniteSets, TLC

(***************************************************************************)
(* Bounds of the model.                                                    *)
(***************************************************************************)
\* longest free token stream handed to Parse with the full alphabet
MaxTop == 2
\* longest free part of a stream placed inside a fixed grammatical context
MaxHole == 3
\* tokenizer calls allowed beyond the length of the longest source before a
\* run is cut off as non-terminating
MaxRetry == 3

(***************************************************************************)
(* Token kinds (lexer.TokenKind) and their descriptions.                   *)
(***************************************************************************)
EOF == "EOF"
BANG == "BANG"
DOLLAR == "DOLLAR"
PAREN_L == "PAREN_L"
PAREN_R == "PAREN_R"
SPREAD == "SPREAD"
COLON == "COLON"
EQUALS == "EQUALS"
AT == "AT"
BRACKET_L == "BRACKET_L"
BRACKET_R == "BRACKET_R"
BRACE_L == "BRACE_L"
BRACE_R == "BRACE_R"
NAME == "NAME"
INT == "INT"
STRING_ == "STRING_"
\* a lexeme the tokenizer cannot turn into a token
ILLEGAL == "ILLEGAL"

GetTokenKindDesc(kind) ==
    CASE kind = EOF -> "EOF"
      [] kind = BANG -> "!"
      [] kind = DOLLAR -> "$"
      [] kind = PAREN_L -> "("
      [] kind = PAREN_R -> ")"
      [] kind = SPREAD -> "..."
      [] kind = COLON -> ":"
      [] kind = EQUALS -> "="
      [] kind = AT -> "@"
      [] kind = BRACKET_L -> "["
      [] kind = BRACKET_R -> "]"
      [] kind = BRACE_L -> "{"
      [] kind = BRACE_R -> "}"
      [] kind = NAME -> "Name"
      [] kind = INT -> "Int"
      [] kind = STRING_ -> "String"

GetTokenDesc(token) ==
    IF token.Value = ""
    THEN GetTokenKindDesc(token.Kind)
    ELSE GetTokenKindDesc(token.Kind) \o " \"" \o token.Value \o "\""

(***************************************************************************)
(* Errors.                                                                 *)
(***************************************************************************)
Nil == [kind |-> "nil"]

\* the *source.Source held by the parser, and the absent reference
SourceRef == "source"
NoSourceRef == "nil"

NewSyntaxError(source, position, description) ==
    [kind |-> "SyntaxError", Source |-> source, Position |-> position,
     Message |-> description]

\* the tokenizer's own error value
LexError(position) == [kind |-> "LexError", Position |-> position]

\* a Go run-time panic: the goroutine unwinds, no function returns
Panic == [kind |-> "panic"]

\* the run was cut off by the model's bound on tokenizer calls
CutOff == [kind |-> "cutoff"]

IsFault(err) == err.kind \in {"panic", "cutoff"}

(***************************************************************************)
(* The tokenizer.  A source is a sequence of lexemes [Kind, Value]; lexeme *)
(* i occupies the offsets 3(i-1) .. 3(i-1)+2 and is followed by one blank. *)
(***************************************************************************)
Lexeme(kind, value) == [Kind |-> kind, Value |-> value]

LexToken(source, offset) ==
    LET i == ((offset + 2) \div 3) + 1
    IN  IF i > Len(source)
        THEN [token |-> [Kind |-> EOF, Value |-> "",
                         Start |-> 3 * Len(source), End |-> 3 * Len(source)],
              err |-> Nil]
        ELSE IF source[i].Kind = ILLEGAL
        THEN [token |-> [Kind |-> EOF, Value |-> "", Start |-> 0, End |-> 0],
              err |-> LexError(3 * (i - 1))]
        ELSE [token |-> [Kind |-> source[i].Kind, Value |-> source[i].Value,
                         Start |-> 3 * (i - 1), End |-> 3 * (i - 1) + 2],
              err |-> Nil]

(***************************************************************************)
(* ast.Location and the zero values of the AST.                            *)
(***************************************************************************)
ZeroLocation == [Start |-> 0, End |-> 0, Source |-> NoSourceRef]

DefaultOptions == [NoLocation |-> FALSE, NoSource |-> FALSE]

ParseOptions == [NoLocation : BOOLEAN, NoSource : BOOLEAN]

\* the nil interface value (an absent ast.Value, ast.Type or node)
NilNode == [Kind |-> "nil"]

ZeroName == [Kind |-> "", Value |-> "", Loc |-> ZeroLocation]

ZeroNamedType == [Kind |-> "", Name |-> ZeroName, Loc |-> ZeroLocation]

ZeroSelectionSet == [Kind |-> "", Selections |-> <<>>, Loc |-> ZeroLocation]

ZeroDocument == [Kind |-> "", Definitions |-> <<>>, Loc |-> ZeroLocation]

(***************************************************************************)
(* The Parser and the token cursor.                                        *)
(***************************************************************************)
R(p, node, err) == [parser |-> p, node |-> node, err |-> err]

ZeroToken == [Kind |-> "", Value |-> "", Start |-> 0, End |-> 0]

makeParser(s, opts) ==
    LET lexed == LexToken(s, 0)
    IN  IF lexed.err # Nil
        THEN R([Source |-> <<>>, Options |-> DefaultOptions, PrevEnd |-> 0,
                Token |-> ZeroToken, Calls |-> <<0>>, Built |-> <<>>,
                Many |-> <<>>],
               NilNode, lexed.err)
        ELSE R([Source |-> s, Options |-> opts, PrevEnd |-> 0,
                Token |-> lexed.token, Calls |-> <<0>>, Built |-> <<>>,
                Many |-> <<>>],
               NilNode, Nil)

\* mutant of advance: PrevEnd is taken from the token the tokenizer returns
advancePrevEndAfter(parser) ==
    LET lexed == LexToken(parser.Source, parser.Token.End)
        called == [parser EXCEPT !.PrevEnd = parser.Token.End,
                                 !.Calls = Append(@, parser.Token.End)]
    IN  IF lexed.err # Nil
        THEN R(called, NilNode, lexed.err)
        ELSE R([called EXCEPT !.Token = lexed.token,
                              !.PrevEnd = lexed.token.End], NilNode, Nil)

advance(parser) ==
    LET prevEnd == parser.Token.End
        lexed == LexToken(parser.Source, prevEnd)
        called == [parser EXCEPT !.PrevEnd = prevEnd,
                                 !.Calls = Append(@, prevEnd)]
    IN  IF lexed.err # Nil
        THEN R(called, NilNode, lexed.err)
        ELSE R([called EXCEPT !.Token = lexed.token], NilNode, Nil)

\* mutant of skip: the parser advances whatever the current token
skipAny(parser, Kind) ==
    R(advance(parser).parser, parser.Token.Kind = Kind, Nil)

\* skip returns its boolean in node; the error of advance is dropped
skip(parser, Kind) ==
    IF parser.Token.Kind = Kind
    THEN R(advance(parser).parser, TRUE, Nil)
    ELSE R(parser, FALSE, Nil)

peek(parser, Kind) == parser.Token.Kind = Kind

unexpected(parser) ==
    LET token == parser.Token
        description == "Unexpected " \o GetTokenDesc(token)
    IN  NewSyntaxError(SourceRef, token.Start, description)

\* mutant of expect: the error is positioned at the end of the previous token
expectAtPrevEnd(parser, kind) ==
    LET token == parser.Token
    IN  IF token.Kind = kind
        THEN R(advance(parser).parser, token, Nil)
        ELSE R(parser, token,
               NewSyntaxError(SourceRef, parser.PrevEnd,
                   "Expected " \o GetTokenKindDesc(kind) \o ", found "
                       \o GetTokenDesc(token)))

expect(parser, kind) ==
    LET token == parser.Token
    IN  IF token.Kind = kind
        THEN R(advance(parser).parser, token, Nil)
        ELSE R(parser, token,
               NewSyntaxError(SourceRef, token.Start,
                   "Expected " \o GetTokenKindDesc(kind) \o ", found "
                       \o GetTokenDesc(token)))

expectKeyWord(parser, value) ==
    LET token == parser.Token
    IN  IF token.Kind = NAME /\ token.Value = value
        THEN R(advance(parser).parser, token, Nil)
        ELSE R(parser, token,
               NewSyntaxError(SourceRef, token.Start,
                   "Expected \"" \o value \o "\", found " \o GetTokenDesc(token)))

\* mutant of loc: the location ends at the current token
locAtToken(parser, start) ==
    IF parser.Options.NoLocation
    THEN ZeroLocation
    ELSE IF parser.Options.NoSource
    THEN [Start |-> start, End |-> parser.Token.End, Source |-> NoSourceRef]
    ELSE [Start |-> start, End |-> parser.Token.End, Source |-> SourceRef]

\* mutant of loc: the source is recorded whatever the options
locWithSource(parser, start) ==
    IF parser.Options.NoLocation
    THEN ZeroLocation
    ELSE [Start |-> start, End |-> parser.PrevEnd, Source |-> SourceRef]

loc(parser, start) ==
    IF parser.Options.NoLocation
    THEN ZeroLocation
    ELSE IF parser.Options.NoSource
    THEN [Start |-> start, End |-> parser.PrevEnd, Source |-> NoSourceRef]
    ELSE [Start |-> start, End |-> parser.PrevEnd, Source |-> SourceRef]

\* history: `node` has been constructed by a production that was entered
\* with the parser `entry`; from and to count the tokenizer calls made when
\* the production was entered and when the node was constructed
built(parser, node, entry) ==
    [parser EXCEPT !.Built = Append(@, [node |-> node,
                                        from |-> Len(entry.Calls),
                                        to |-> Len(parser.Calls)])]

(***************************************************************************)
(* The sources the model parses.                                           *)
(***************************************************************************)
Names == {"query", "mutation", "fragment", "on", "a", "b", "Int"}

Punctuators == {BANG, DOLLAR, PAREN_L, PAREN_R, SPREAD, COLON, EQUALS, AT,
                BRACKET_L, BRACKET_R, BRACE_L, BRACE_R}

Illegal == Lexeme(ILLEGAL, "?")

N(value) == Lexeme(NAME, value)

P(kind) == Lexeme(kind, "")

\* every lexeme of the model
Lexemes ==
    {N(v) : v \in Names} \cup {P(k) : k \in Punctuators}
        \cup {Lexeme(STRING_, "on"), Lexeme(INT, "1"), Illegal}

Streams(alphabet, n) == UNION {[1..k -> alphabet] : k \in 0..n}

\* a context is a fixed prefix and suffix around a free part over an alphabet
Context(pre, alphabet, max, post) ==
    [pre |-> pre, alphabet |-> alphabet, max |-> max, post |-> post]

Contexts ==
    { \* any tokens at all
      Context(<<>>, Lexemes, MaxTop, <<>>),
      \* a second definition after a first
      Context(<<P(BRACE_L), N("a"), P(BRACE_R)>>,
              {N("query"), N("fragment"), N("a"), P(BRACE_L), P(BRACE_R),
               P(BANG), Illegal},
              MaxHole, <<>>),
      \* the selections of a selection set
      Context(<<P(BRACE_L)>>,
              {N("a"), N("b"), N("on"), P(COLON), P(SPREAD), P(BRACE_L),
               P(BRACE_R), P(AT), Lexeme(STRING_, "on"), Illegal},
              MaxHole, <<P(BRACE_R)>>),
      \* what follows the keyword of an operation
      Context(<<N("query")>>,
              {N("a"), P(BRACE_L), P(BRACE_R), P(PAREN_L), P(AT), Illegal},
              MaxHole, <<P(BRACE_R)>>),
      \* a fragment definition
      Context(<<N("fragment")>>,
              {N("a"), N("on"), P(BRACE_L), P(BRACE_R), P(AT), Illegal},
              MaxHole, <<P(BRACE_L), N("a"), P(BRACE_R)>>),
      \* a variable definition
      Context(<<N("query"), N("a"), P(PAREN_L)>>,
              {N("a"), P(COLON), P(DOLLAR), P(EQUALS), P(BRACE_L),
               P(BRACKET_R)},
              MaxHole + 1, <<P(PAREN_R), P(BRACE_L), N("a"), P(BRACE_R)>>),
      \* the type of a variable definition
      Context(<<N("query"), N("a"), P(PAREN_L), P(COLON), P(DOLLAR), N("a")>>,
              {N("Int"), P(BRACKET_L), P(BRACKET_R), P(BRACE_L), P(BANG),
               Illegal},
              MaxHole + 1, <<P(PAREN_R), P(BRACE_L), N("a"), P(BRACE_R)>>),
      \* the value of a directive
      Context(<<P(BRACE_L), N("a"), P(AT), N("a"), P(COLON)>>,
              {N("a"), P(BRACKET_L), P(BRACKET_R), P(BRACE_L), P(BRACE_R),
               Lexeme(INT, "1"), Illegal},
              MaxHole + 1, <<P(BRACE_R)>>),
      \* the arguments of a field
      Context(<<P(BRACE_L), N("a"), P(PAREN_L)>>,
              {N("a"), P(COLON), P(BRACE_L), P(BRACKET_R), P(PAREN_R),
               Illegal},
              MaxHole + 1, <<P(PAREN_R), P(BRACE_R)>>),
      \* an inline fragment
      Context(<<P(BRACE_L), P(SPREAD), N("on")>>,
              {N("a"), N("on"), P(BRACE_L), P(BRACE_R), P(AT), Illegal},
              MaxHole + 1, <<P(BRACE_R)>>),
      \* a variable definition after its default value
      Context(<<N("query"), N("a"), P(PAREN_L), P(EQUALS), P(BRACE_L),
                P(BRACKET_R)>>,
              {N("a"), P(COLON), P(DOLLAR), P(EQUALS)},
              MaxHole + 1, <<P(PAREN_R), P(BRACE_L), N("a"), P(BRACE_R)>>),
      \* the selection set of a field
      Context(<<P(BRACE_L), N("hero"), P(BRACE_L)>>,
              {N("name"), N("a"), P(COLON), P(BRACE_L), P(BRACE_R), Illegal},
              MaxHole, <<P(BRACE_R)>>) }

Sources ==
    UNION {{c.pre \o hole \o c.post : hole \in Streams(c.alphabet, c.max)} :
           c \in Contexts}

LongestSource ==
    LET lengths == {Len(c.pre) + c.max + Len(c.post) : c \in Contexts}
    IN  CHOOSE n \in lengths : \A m \in lengths : m <= n

\* a run that has made more tokenizer calls than this is cut off
CallCap == LongestSource + MaxRetry

Exhausted(parser) == Len(parser.Calls) > CallCap

\* an iteration of a loop has left the cursor where it was: the tokenizer has
\* failed, so every later iteration does the same and the loop never ends
Stuck(before, after) ==
    /\ after.Token = before.Token
    /\ after.PrevEnd = before.PrevEnd

(***************************************************************************)
(* The grammar.  Let(v, F) binds the value returned by a call to the       *)
(* parameter of F, as `x, err := f(parser)` does.                          *)
(***************************************************************************)
Let(v, F(_)) == F(v)

RECURSIVE call(_, _)
RECURSIVE manyLoop(_, _, _, _)
RECURSIVE anyLoop(_, _, _, _)
RECURSIVE parseType(_)
RECURSIVE directivesLoop(_, _)

\* Converts a name lex token into a name parse node.
parseName(parser) ==
    Let(expect(parser, NAME), LAMBDA e :
        IF e.err # Nil THEN R(e.parser, ZeroName, e.err)
        ELSE LET name == [Kind |-> "Name", Value |-> e.node.Value,
                          Loc |-> loc(e.parser, e.node.Start)]
             IN  R(built(e.parser, name, parser), name, Nil))

parseNamedType(parser) ==
    LET start == parser.Token.Start
    IN  Let(parseName(parser), LAMBDA n :
            IF n.err # Nil THEN R(n.parser, ZeroNamedType, n.err)
            ELSE LET named == [Kind |-> "NamedType", Name |-> n.node,
                               Loc |-> loc(n.parser, start)]
                 IN  R(built(n.parser, named, parser), named, Nil))

\* mutant of parseFragmentName: any name is a fragment name
parseFragmentNameAny(parser) == parseName(parser)

parseFragmentName(parser) ==
    IF parser.Token.Value = "on"
    THEN R(parser, ZeroName, unexpected(parser))
    ELSE parseName(parser)

parseVariable(parser) ==
    LET start == parser.Token.Start
    IN  Let(expect(parser, DOLLAR), LAMBDA e :
            IF e.err # Nil THEN R(e.parser, NilNode, e.err)
            ELSE Let(parseName(e.parser), LAMBDA n :
                IF n.err # Nil THEN R(n.parser, NilNode, n.err)
                ELSE LET variable == [Kind |-> "Variable", Name |-> n.node,
                                      Loc |-> loc(n.parser, start)]
                     IN  R(built(n.parser, variable, parser), variable, Nil)))

\* the end of parseType: a `!` wraps ttype in a NonNullType
parseTypeNonNull(parser, ttype, start, entry) ==
    Let(skip(parser, BANG), LAMBDA s :
        IF s.node
        THEN LET nonNull == [Kind |-> "NonNullType", Type |-> ttype,
                             Loc |-> loc(s.parser, start)]
             IN  R(built(s.parser, nonNull, entry), nonNull, Nil)
        ELSE R(s.parser, ttype, Nil))

parseType(parser) ==
    LET start == parser.Token.Start
    IN  Let(skip(parser, BRACE_L), LAMBDA s :
            IF s.node
            THEN IF Exhausted(s.parser) \/ Stuck(parser, s.parser)
                 THEN R(s.parser, NilNode, CutOff)
                 ELSE Let(parseType(s.parser), LAMBDA t :
                     IF t.err # Nil THEN R(t.parser, t.node, t.err)
                     ELSE Let(expect(t.parser, BRACKET_R), LAMBDA e :
                         IF e.err # Nil THEN R(e.parser, t.node, e.err)
                         ELSE LET list == [Kind |-> "ListType", Type |-> t.node,
                                           Loc |-> loc(e.parser, start)]
                              IN  parseTypeNonNull(
                                      built(e.parser, list, parser), list,
                                      start, parser)))
            ELSE Let(parseNamedType(s.parser), LAMBDA name :
                     IF name.err # Nil THEN R(name.parser, NilNode, name.err)
                     ELSE parseTypeNonNull(name.parser, name.node, start,
                                           parser)))

\* the for loop of any
anyLoop(parser, parseFn, closeKind, nodes) ==
    IF Exhausted(parser) THEN R(parser, nodes, CutOff)
    ELSE Let(skip(parser, closeKind), LAMBDA s :
        IF s.node THEN R(s.parser, nodes, Nil)
        ELSE Let(call(parseFn, s.parser), LAMBDA n :
            IF n.err # Nil THEN R(n.parser, nodes, n.err)
            ELSE anyLoop(n.parser, parseFn, closeKind, Append(nodes, n.node))))

\* parseFn, called at a token of the kind openKind, calls any again:
\* parseValue routes that token to parseArray
ReentersAny(parseFn, openKind) ==
    /\ parseFn \in {"parseConstValue", "parseVariableValue"}
    /\ openKind = BRACE_L

any(parser, openKind, parseFn, closeKind) ==
    Let(expect(parser, openKind), LAMBDA e :
        IF e.err # Nil THEN R(e.parser, <<>>, Nil)
        ELSE IF Stuck(parser, e.parser) /\ ReentersAny(parseFn, openKind)
        THEN R(e.parser, <<>>, CutOff)
        ELSE anyLoop(e.parser, parseFn, closeKind, <<>>))

\* values[i] = ... on the nil slice `values` panics for every i
parseArray(parser, isConst) ==
    LET start == parser.Token.Start
        item == IF isConst THEN "parseConstValue" ELSE "parseVariableValue"
    IN  Let(any(parser, BRACE_L, item, BRACKET_R), LAMBDA a :
            IF a.err # Nil THEN R(a.parser, NilNode, a.err)
            ELSE IF Len(a.node) > 0 THEN R(a.parser, NilNode, Panic)
            ELSE LET array == [Kind |-> "Array", Values |-> <<>>,
                               Loc |-> loc(a.parser, start)]
                 IN  R(built(a.parser, array, parser), array, Nil))

parseValue(parser, isConst) ==
    LET token == parser.Token
    IN  IF token.Kind = BRACE_L
        THEN parseArray(parser, isConst)
        ELSE R(parser, NilNode, unexpected(parser))

parseConstValue(parser) == parseValue(parser, TRUE)

parseVariableValue(parser) == parseValue(parser, FALSE)

\* the for loop of many
\* history: many has returned `nodes` without error
listed(parser, nodes) == [parser EXCEPT !.Many = Append(@, nodes)]

\* mutant of manyLoop: a parsed node is put in front of the earlier ones
manyLoopPrepend(parser, parseFn, closeKind, nodes) ==
    IF Exhausted(parser) THEN R(parser, nodes, CutOff)
    ELSE Let(skip(parser, closeKind), LAMBDA s :
        IF s.node THEN R(listed(s.parser, nodes), nodes, Nil)
        ELSE Let(call(parseFn, s.parser), LAMBDA n :
            IF n.err # Nil THEN R(n.parser, nodes, n.err)
            ELSE IF Stuck(parser, n.parser)
            THEN R(n.parser, <<n.node>> \o nodes, CutOff)
            ELSE manyLoop(n.parser, parseFn, closeKind, <<n.node>> \o nodes)))

manyLoop(parser, parseFn, closeKind, nodes) ==
    IF Exhausted(parser) THEN R(parser, nodes, CutOff)
    ELSE Let(skip(parser, closeKind), LAMBDA s :
        IF s.node THEN R(listed(s.parser, nodes), nodes, Nil)
        ELSE Let(call(parseFn, s.parser), LAMBDA n :
            IF n.err # Nil THEN R(n.parser, nodes, n.err)
            ELSE IF Stuck(parser, n.parser)
            THEN R(n.parser, Append(nodes, n.node), CutOff)
            ELSE manyLoop(n.parser, parseFn, closeKind, Append(nodes, n.node))))

\* mutant of many: the close token may follow the open token at once
manyOrNone(parser, openKind, parseFn, closeKind) ==
    Let(expect(parser, openKind), LAMBDA e :
        IF e.err # Nil THEN R(e.parser, <<>>, e.err)
        ELSE manyLoop(e.parser, parseFn, closeKind, <<>>))

many(parser, openKind, parseFn, closeKind) ==
    Let(expect(parser, openKind), LAMBDA e :
        IF e.err # Nil THEN R(e.parser, <<>>, e.err)
        ELSE Let(call(parseFn, e.parser), LAMBDA n :
            IF n.err # Nil THEN R(n.parser, <<>>, n.err)
            ELSE manyLoop(n.parser, parseFn, closeKind, <<n.node>>)))

\* the optional `: value` of a directive
parseDirectiveValue(parser) ==
    Let(skip(parser, COLON), LAMBDA s :
        IF s.node THEN parseValue(s.parser, FALSE)
        ELSE R(s.parser, NilNode, Nil))

parseDirective(parser) ==
    LET start == parser.Token.Start
    IN  Let(expect(parser, AT), LAMBDA e :
            IF e.err # Nil THEN R(e.parser, NilNode, e.err)
            ELSE Let(parseName(e.parser), LAMBDA n :
                IF n.err # Nil THEN R(n.parser, NilNode, n.err)
                ELSE Let(parseDirectiveValue(n.parser), LAMBDA v :
                    IF v.err # Nil THEN R(v.parser, NilNode, v.err)
                    ELSE LET directive ==
                                 [Kind |-> "Directive", Name |-> n.node,
                                  Value |-> v.node,
                                  Loc |-> loc(v.parser, start)]
                         IN  R(built(v.parser, directive, parser),
                               directive, Nil))))

\* the for loop of parseDirectives
directivesLoop(parser, directives) ==
    IF Exhausted(parser) THEN R(parser, directives, CutOff)
    ELSE IF ~peek(parser, AT) THEN R(parser, directives, Nil)
    ELSE Let(parseDirective(parser), LAMBDA d :
        IF d.err # Nil THEN R(d.parser, directives, d.err)
        ELSE directivesLoop(d.parser, Append(directives, d.node)))

parseDirectives(parser) == directivesLoop(parser, <<>>)

\* the optional `= value` that opens a variable definition
parseDefaultValue(parser) ==
    Let(skip(parser, EQUALS), LAMBDA s :
        IF s.node THEN parseValue(s.parser, TRUE)
        ELSE R(s.parser, NilNode, Nil))

\* mutant of parseVariableDefinition: the variable comes first and the
\* default value last
parseVariableDefinitionVariableFirst(parser) ==
    LET start == parser.Token.Start
    IN  Let(parseVariable(parser), LAMBDA variable :
            IF variable.err # Nil
            THEN R(variable.parser, NilNode, variable.err)
            ELSE Let(expect(variable.parser, COLON), LAMBDA e :
                IF e.err # Nil THEN R(e.parser, NilNode, e.err)
                ELSE Let(parseType(e.parser), LAMBDA ttype :
                    IF ttype.err # Nil
                    THEN R(ttype.parser, NilNode, ttype.err)
                    ELSE Let(parseDefaultValue(ttype.parser), LAMBDA dv :
                        IF dv.err # Nil THEN R(dv.parser, dv.node, dv.err)
                        ELSE LET definition ==
                                     [Kind |-> "VariableDefinition",
                                      Variable |-> variable.node,
                                      Type |-> ttype.node,
                                      DefaultValue |-> dv.node,
                                      Loc |-> loc(dv.parser, start)]
                             IN  R(built(dv.parser, definition, parser),
                                   definition, Nil)))))

parseVariableDefinition(parser) ==
    LET start == parser.Token.Start
    IN  Let(parseDefaultValue(parser), LAMBDA dv :
            IF dv.err # Nil THEN R(dv.parser, dv.node, dv.err)
            ELSE Let(expect(dv.parser, COLON), LAMBDA e :
                IF e.err # Nil THEN R(e.parser, NilNode, e.err)
                ELSE Let(parseVariable(e.parser), LAMBDA variable :
                    IF variable.err # Nil
                    THEN R(variable.parser, NilNode, variable.err)
                    ELSE Let(parseType(variable.parser), LAMBDA ttype :
                        IF ttype.err # Nil
                        THEN R(ttype.parser, NilNode, ttype.err)
                        ELSE LET definition ==
                                     [Kind |-> "VariableDefinition",
                                      Variable |-> variable.node,
                                      Type |-> ttype.node,
                                      DefaultValue |-> dv.node,
                                      Loc |-> loc(ttype.parser, start)]
                             IN  R(built(ttype.parser, definition, parser),
                                   definition, Nil)))))

\* variableDefinitions[i] = ... on the nil slice panics for every i, and the
\* loop runs before err is looked at
parseVariableDefinitions(parser) ==
    IF peek(parser, PAREN_L)
    THEN Let(many(parser, PAREN_L, "parseVariableDefinition", PAREN_R),
             LAMBDA m :
                 IF IsFault(m.err) THEN R(m.parser, <<>>, m.err)
                 ELSE IF Len(m.node) > 0 THEN R(m.parser, <<>>, Panic)
                 ELSE R(m.parser, <<>>, m.err))
    ELSE R(parser, <<>>, Nil)

parseArgument(parser) ==
    LET start == parser.Token.Start
    IN  Let(parseName(parser), LAMBDA n :
            IF n.err # Nil THEN R(n.parser, NilNode, n.err)
            ELSE Let(expect(n.parser, COLON), LAMBDA e :
                IF e.err # Nil THEN R(e.parser, NilNode, e.err)
                ELSE Let(parseValue(e.parser, FALSE), LAMBDA v :
                    IF v.err # Nil THEN R(v.parser, NilNode, v.err)
                    ELSE LET argument ==
                                 [Kind |-> "Argument", Name |-> n.node,
                                  Value |-> v.node,
                                  Loc |-> loc(v.parser, start)]
                         IN  R(built(v.parser, argument, parser),
                               argument, Nil))))

\* arguments[i] = ... on the nil slice `arguments` panics for every i
parseArguments(parser) ==
    IF peek(parser, PAREN_L)
    THEN Let(many(parser, PAREN_L, "parseArgument", PAREN_R), LAMBDA m :
             IF m.err # Nil THEN R(m.parser, <<>>, m.err)
             ELSE IF Len(m.node) > 0 THEN R(m.parser, <<>>, Panic)
             ELSE R(m.parser, <<>>, Nil))
    ELSE R(parser, <<>>, Nil)

parseSelectionSet(parser) ==
    LET start == parser.Token.Start
    IN  Let(many(parser, BRACE_L, "parseSelection", BRACE_R), LAMBDA m :
            IF m.err # Nil THEN R(m.parser, ZeroSelectionSet, m.err)
            ELSE LET set == [Kind |-> "SelectionSet", Selections |-> m.node,
                             Loc |-> loc(m.parser, start)]
                 IN  R(built(m.parser, set, parser), set, Nil))

\* the InlineFragment branch of parseFragment, from the advance over `on`
parseInlineFragment(parser, start, entry) ==
    Let(parseNamedType(advance(parser).parser), LAMBDA name :
        IF name.err # Nil THEN R(name.parser, NilNode, name.err)
        ELSE Let(parseDirectives(name.parser), LAMBDA directives :
            IF directives.err # Nil
            THEN R(directives.parser, NilNode, directives.err)
            ELSE Let(parseSelectionSet(directives.parser), LAMBDA selectionSet :
                IF selectionSet.err # Nil
                THEN R(selectionSet.parser, NilNode, selectionSet.err)
                ELSE LET inline ==
                             [Kind |-> "InlineFragment",
                              TypeCondition |-> name.node,
                              Directives |-> directives.node,
                              SelectionSet |-> selectionSet.node,
                              Loc |-> loc(selectionSet.parser, start)]
                     IN  R(built(selectionSet.parser, inline, entry),
                           inline, Nil))))

\* the FragmentSpread branch of parseFragment
parseFragmentSpread(parser, start, entry) ==
    Let(parseFragmentName(parser), LAMBDA name :
        IF name.err # Nil THEN R(name.parser, NilNode, name.err)
        ELSE Let(parseDirectives(name.parser), LAMBDA directives :
            IF directives.err # Nil
            THEN R(directives.parser, NilNode, directives.err)
            ELSE LET spread == [Kind |-> "FragmentSpread", Name |-> name.node,
                                Directives |-> directives.node,
                                Loc |-> loc(directives.parser, start)]
                 IN  R(built(directives.parser, spread, entry), spread, Nil)))

parseFragment(parser) ==
    LET start == parser.Token.Start
    IN  Let(expect(parser, SPREAD), LAMBDA e :
            IF e.err # Nil THEN R(e.parser, NilNode, e.err)
            ELSE IF e.parser.Token.Value = "on"
            THEN parseInlineFragment(e.parser, start, parser)
            ELSE parseFragmentSpread(e.parser, start, parser))

\* the name of a field after its first name: `: name` makes the first an alias
\* mutant of parseFieldName: the name before the `:` is taken as the name
parseFieldNameFirst(parser, nameOrAlias) ==
    Let(skip(parser, COLON), LAMBDA s :
        IF s.node
        THEN Let(parseName(s.parser), LAMBDA n :
                 [parser |-> n.parser, alias |-> n.node, name |-> nameOrAlias,
                  err |-> n.err])
        ELSE [parser |-> s.parser, alias |-> ZeroName, name |-> nameOrAlias,
              err |-> Nil])

parseFieldName(parser, nameOrAlias) ==
    Let(skip(parser, COLON), LAMBDA s :
        IF s.node
        THEN Let(parseName(s.parser), LAMBDA n :
                 [parser |-> n.parser, alias |-> nameOrAlias, name |-> n.node,
                  err |-> n.err])
        ELSE [parser |-> s.parser, alias |-> ZeroName, name |-> nameOrAlias,
              err |-> Nil])

\* the selection set of a field, parsed when a `{` follows the name
parseFieldSelectionSet(parser) ==
    IF peek(parser, BRACE_L)
    THEN parseSelectionSet(parser)
    ELSE R(parser, ZeroSelectionSet, Nil)

parseField(parser) ==
    LET start == parser.Token.Start
    IN  Let(parseName(parser), LAMBDA nameOrAlias :
        IF nameOrAlias.err # Nil
        THEN R(nameOrAlias.parser, NilNode, nameOrAlias.err)
        ELSE Let(parseFieldName(nameOrAlias.parser, nameOrAlias.node),
                 LAMBDA named :
            IF named.err # Nil THEN R(named.parser, NilNode, named.err)
            ELSE Let(parseFieldSelectionSet(named.parser), LAMBDA sSet :
                IF sSet.err # Nil THEN R(sSet.parser, NilNode, sSet.err)
                ELSE Let(parseArguments(sSet.parser), LAMBDA arguments :
                    IF arguments.err # Nil
                    THEN R(arguments.parser, NilNode, arguments.err)
                    ELSE Let(parseDirectives(arguments.parser),
                             LAMBDA directives :
                        IF directives.err # Nil
                        THEN R(directives.parser, NilNode, directives.err)
                        ELSE LET field ==
                                     [Kind |-> "Field",
                                      Alias |-> named.alias,
                                      Name |-> named.name,
                                      Arguments |-> arguments.node,
                                      Directives |-> directives.node,
                                      SelectionSet |-> sSet.node,
                                      Loc |-> loc(directives.parser, start)]
                             IN  R(built(directives.parser, field, parser),
                                   field, Nil))))))

parseSelection(parser) ==
    IF peek(parser, SPREAD)
    THEN parseFragment(parser)
    ELSE parseField(parser)

\* a value of type parseFn, applied
call(parseFn, parser) ==
    CASE parseFn = "parseSelection" -> parseSelection(parser)
      [] parseFn = "parseVariableDefinition" -> parseVariableDefinition(parser)
      [] parseFn = "parseArgument" -> parseArgument(parser)
      [] parseFn = "parseConstValue" -> parseConstValue(parser)
      [] parseFn = "parseVariableValue" -> parseVariableValue(parser)

NewOperationDefinition ==
    [Kind |-> "OperationDefinition", Operation |-> "", Name |-> ZeroName,
     VariableDefinitions |-> <<>>, Directives |-> <<>>,
     SelectionSet |-> ZeroSelectionSet, Loc |-> ZeroLocation]

NewFragmentDefinition ==
    [Kind |-> "FragmentDefinition", Name |-> ZeroName,
     TypeCondition |-> ZeroNamedType, Directives |-> <<>>,
     SelectionSet |-> ZeroSelectionSet, Loc |-> ZeroLocation]

\* parseOperationDefinition when the current token is `{`
\* mutant of parseAnonymousOperation: the operation kind is left unset
parseAnonymousOperationNoKind(parser, start) ==
    Let(parseSelectionSet(parser), LAMBDA selectionSet :
        IF selectionSet.err # Nil
        THEN R(selectionSet.parser, NewOperationDefinition, selectionSet.err)
        ELSE LET oDef == [NewOperationDefinition EXCEPT
                             !.Directives = <<>>,
                             !.SelectionSet = selectionSet.node,
                             !.Loc = loc(selectionSet.parser, start)]
             IN  R(built(selectionSet.parser, oDef, parser), oDef, Nil))

parseAnonymousOperation(parser, start) ==
    Let(parseSelectionSet(parser), LAMBDA selectionSet :
        IF selectionSet.err # Nil
        THEN R(selectionSet.parser, NewOperationDefinition, selectionSet.err)
        ELSE LET oDef == [NewOperationDefinition EXCEPT
                             !.Operation = "query",
                             !.Directives = <<>>,
                             !.SelectionSet = selectionSet.node,
                             !.Loc = loc(selectionSet.parser, start)]
             IN  R(built(selectionSet.parser, oDef, parser), oDef, Nil))

\* the name of an operation, were it optional
parseOptionalName(parser) ==
    IF peek(parser, NAME) THEN parseName(parser) ELSE R(parser, ZeroName, Nil)

\* mutant of parseNamedOperation: the name is parsed only when a name follows
parseNamedOperationOptionalName(parser, start, operation, entry) ==
    Let(parseOptionalName(parser), LAMBDA name :
    IF name.err # Nil THEN R(name.parser, NewOperationDefinition, name.err)
    ELSE Let(parseVariableDefinitions(name.parser),
             LAMBDA variableDefinitions :
        IF variableDefinitions.err # Nil
        THEN R(variableDefinitions.parser, NewOperationDefinition,
               variableDefinitions.err)
        ELSE Let(parseDirectives(variableDefinitions.parser),
                 LAMBDA directives :
            IF directives.err # Nil
            THEN R(directives.parser, NewOperationDefinition, directives.err)
            ELSE Let(parseSelectionSet(directives.parser),
                     LAMBDA selectionSet :
                IF selectionSet.err # Nil
                THEN R(selectionSet.parser, NewOperationDefinition,
                       selectionSet.err)
                ELSE LET oDef ==
                             [NewOperationDefinition EXCEPT
                                 !.Operation = operation,
                                 !.Name = name.node,
                                 !.VariableDefinitions =
                                     variableDefinitions.node,
                                 !.Directives = directives.node,
                                 !.SelectionSet = selectionSet.node,
                                 !.Loc = loc(selectionSet.parser, start)]
                     IN  R(built(selectionSet.parser, oDef, entry),
                           oDef, Nil)))))

\* parseOperationDefinition from the name that follows the operation token
parseNamedOperation(parser, start, operation, entry) ==
    Let(parseName(parser), LAMBDA name :
    IF name.err # Nil THEN R(name.parser, NewOperationDefinition, name.err)
    ELSE Let(parseVariableDefinitions(name.parser),
             LAMBDA variableDefinitions :
        IF variableDefinitions.err # Nil
        THEN R(variableDefinitions.parser, NewOperationDefinition,
               variableDefinitions.err)
        ELSE Let(parseDirectives(variableDefinitions.parser),
                 LAMBDA directives :
            IF directives.err # Nil
            THEN R(directives.parser, NewOperationDefinition, directives.err)
            ELSE Let(parseSelectionSet(directives.parser),
                     LAMBDA selectionSet :
                IF selectionSet.err # Nil
                THEN R(selectionSet.parser, NewOperationDefinition,
                       selectionSet.err)
                ELSE LET oDef ==
                             [NewOperationDefinition EXCEPT
                                 !.Operation = operation,
                                 !.Name = name.node,
                                 !.VariableDefinitions =
                                     variableDefinitions.node,
                                 !.Directives = directives.node,
                                 !.SelectionSet = selectionSet.node,
                                 !.Loc = loc(selectionSet.parser, start)]
                     IN  R(built(selectionSet.parser, oDef, entry),
                           oDef, Nil)))))

\* Implements the parsing rules in the Operations section.
parseOperationDefinition(parser) ==
    LET start == parser.Token.Start
    IN  IF peek(parser, BRACE_L)
        THEN parseAnonymousOperation(parser, start)
        ELSE Let(expect(parser, NAME), LAMBDA operationToken :
                 IF operationToken.err # Nil
                 THEN R(operationToken.parser, NewOperationDefinition,
                        operationToken.err)
                 ELSE parseNamedOperation(operationToken.parser, start,
                                          operationToken.node.Value, parser))

\* parseFragmentDefinition from the keyword `on`
parseFragmentBody(parser, start, name, entry) ==
    Let(expectKeyWord(parser, "on"), LAMBDA on :
    IF on.err # Nil THEN R(on.parser, NewFragmentDefinition, on.err)
    ELSE Let(parseNamedType(on.parser), LAMBDA typeCondition :
        IF typeCondition.err # Nil
        THEN R(typeCondition.parser, NewFragmentDefinition, typeCondition.err)
        ELSE Let(parseSelectionSet(typeCondition.parser), LAMBDA selectionSet :
            IF selectionSet.err # Nil
            THEN R(selectionSet.parser, NewFragmentDefinition,
                   selectionSet.err)
            ELSE Let(parseDirectives(selectionSet.parser), LAMBDA directives :
                IF directives.err # Nil
                THEN R(directives.parser, NewFragmentDefinition,
                       directives.err)
                ELSE LET fDef ==
                             [NewFragmentDefinition EXCEPT
                                 !.Name = name,
                                 !.TypeCondition = typeCondition.node,
                                 !.Directives = directives.node,
                                 !.SelectionSet = selectionSet.node,
                                 !.Loc = loc(directives.parser, start)]
                     IN  R(built(directives.parser, fDef, entry),
                           fDef, Nil)))))

parseFragmentDefinition(parser) ==
    LET start == parser.Token.Start
    IN  Let(expectKeyWord(parser, "fragment"), LAMBDA k :
            IF k.err # Nil THEN R(k.parser, NewFragmentDefinition, k.err)
            ELSE Let(parseFragmentName(k.parser), LAMBDA name :
                IF name.err # Nil
                THEN R(name.parser, NewFragmentDefinition, name.err)
                ELSE parseFragmentBody(name.parser, start, name.node, parser)))

(***************************************************************************)
(* parseDocument and Parse.  A run is the record                           *)
(*   [pc, parser, definitions, doc, err]                                   *)
(* with pc "parseDocument" while the loop runs, "done" once Parse has      *)
(* returned doc and err, "panic" when the goroutine has panicked, and      *)
(* "cutoff" when the run was cut off by CallCap.                           *)
(***************************************************************************)
Run(pc, p, defs, document, error) ==
    [pc |-> pc, parser |-> p, definitions |-> defs, doc |-> document,
     err |-> error]

\* mutant of docDefinition: the definitions parsed so far are returned with
\* the error
docDefinitionPartial(r, definitions) ==
    IF r.err = Nil
    THEN Run("parseDocument", r.parser, Append(definitions, r.node),
             ZeroDocument, Nil)
    ELSE IF IsFault(r.err)
    THEN Run(r.err.kind, r.parser, definitions, ZeroDocument, r.err)
    ELSE Run("done", r.parser, definitions,
             [Kind |-> "Document", Loc |-> ZeroLocation,
              Definitions |-> definitions], r.err)

\* a definition was parsed, or parseDocument returns ast.Document{}, err
docDefinition(r, definitions) ==
    IF r.err = Nil
    THEN Run("parseDocument", r.parser, Append(definitions, r.node),
             ZeroDocument, Nil)
    ELSE IF IsFault(r.err)
    THEN Run(r.err.kind, r.parser, definitions, ZeroDocument, r.err)
    ELSE Run("done", r.parser, definitions, ZeroDocument, r.err)

\* skip(parser, EOF) succeeded: break, and return the Document
\* mutant of docEOF: a document needs a definition
docEOFNonEmpty(parser, start, definitions) ==
    IF definitions = <<>>
    THEN Run("done", parser, <<>>, ZeroDocument, unexpected(parser))
    ELSE LET s == skip(parser, EOF)
             document == [Kind |-> "Document", Loc |-> loc(s.parser, start),
                          Definitions |-> definitions]
         IN  Run("done", [s.parser EXCEPT !.Built =
                             Append(@, [node |-> document, from |-> 1,
                                        to |-> Len(s.parser.Calls)])],
                 definitions, document, Nil)

docEOF(parser, start, definitions) ==
    LET s == skip(parser, EOF)
        document == [Kind |-> "Document", Loc |-> loc(s.parser, start),
                     Definitions |-> definitions]
    IN  Run("done", [s.parser EXCEPT !.Built =
                        Append(@, [node |-> document, from |-> 1,
                                   to |-> Len(s.parser.Calls)])],
            definitions, document, Nil)

docOperation(parser, start, definitions) ==
    docDefinition(parseOperationDefinition(parser), definitions)

docFragment(parser, start, definitions) ==
    docDefinition(parseFragmentDefinition(parser), definitions)

docUnexpected(parser, start, definitions) ==
    Run("done", parser, definitions, ZeroDocument, unexpected(parser))

\* mutant of IsOperationStart: the keyword mutation is not recognised
IsOperationStartQueryOnly(parser) ==
    \/ peek(parser, BRACE_L)
    \/ peek(parser, NAME) /\ parser.Token.Value = "query"

\* which production the loop body applies to the current token
IsOperationStart(parser) ==
    \/ peek(parser, BRACE_L)
    \/ /\ peek(parser, NAME)
       /\ parser.Token.Value = "query" \/ parser.Token.Value = "mutation"

IsFragmentStart(parser) ==
    peek(parser, NAME) /\ parser.Token.Value = "fragment"

\* one iteration of the loop of parseDocument
docBody(parser, start, definitions) ==
    IF peek(parser, EOF) THEN docEOF(parser, start, definitions)
    ELSE IF IsOperationStart(parser)
    THEN docOperation(parser, start, definitions)
    ELSE IF IsFragmentStart(parser)
    THEN docFragment(parser, start, definitions)
    ELSE docUnexpected(parser, start, definitions)

RECURSIVE docLoop(_, _, _)
docLoop(parser, start, definitions) ==
    LET b == docBody(parser, start, definitions)
    IN  IF b.pc = "parseDocument"
        THEN docLoop(b.parser, start, b.definitions)
        ELSE b

\* Implements the parsing rules in the Document section.
parseDocument(parser) == docLoop(parser, parser.Token.Start, <<>>)

\* Parse up to the call of parseDocument
parseStart(s, opts) ==
    LET m == makeParser(s, opts)
    IN  IF m.err # Nil
        THEN Run("done", m.parser, <<>>, ZeroDocument, m.err)
        ELSE Run("parseDocument", m.parser, <<>>, ZeroDocument, Nil)

Parse(s, opts) ==
    LET m == parseStart(s, opts)
    IN  IF m.pc = "done" THEN m ELSE parseDocument(m.parser)

(***************************************************************************)
(* The state machine.                                                      *)
(***************************************************************************)
VARIABLES
    source,        \* the source text handed to Parse, as lexemes
    options,       \* the ParseOptions handed to Parse
    pc,            \* where the run of Parse stands
    parser,        \* the Parser
    start,         \* start of parseDocument
    definitions,   \* definitions of parseDocument
    doc,           \* the Document returned by Parse
    err            \* the error returned by Parse

vars == <<source, options, pc, parser, start, definitions, doc, err>>

Init ==
    /\ source \in Sources
    /\ options \in ParseOptions
    /\ pc = "Parse"
    /\ parser = [Source |-> <<>>, Options |-> DefaultOptions, PrevEnd |-> 0,
                 Token |-> ZeroToken, Calls |-> <<>>, Built |-> <<>>,
                Many |-> <<>>]
    /\ start = 0
    /\ definitions = <<>>
    /\ doc = ZeroDocument
    /\ err = Nil

Become(run) ==
    /\ pc' = run.pc
    /\ parser' = run.parser
    /\ definitions' = run.definitions
    /\ doc' = run.doc
    /\ err' = run.err

ParseStart ==
    /\ pc = "Parse"
    /\ Become(parseStart(source, options))
    /\ start' = parser'.Token.Start
    /\ UNCHANGED <<source, options>>

DocEOF ==
    /\ pc = "parseDocument"
    /\ peek(parser, EOF)
    /\ Become(docEOF(parser, start, definitions))
    /\ UNCHANGED <<source, options, start>>

DocOperation ==
    /\ pc = "parseDocument"
    /\ ~peek(parser, EOF)
    /\ IsOperationStart(parser)
    /\ Become(docOperation(parser, start, definitions))
    /\ UNCHANGED <<source, options, start>>

DocFragment ==
    /\ pc = "parseDocument"
    /\ ~peek(parser, EOF)
    /\ ~IsOperationStart(parser)
    /\ IsFragmentStart(parser)
    /\ Become(docFragment(parser, start, definitions))
    /\ UNCHANGED <<source, options, start>>

DocUnexpected ==
    /\ pc = "parseDocument"
    /\ ~peek(parser, EOF)
    /\ ~IsOperationStart(parser)
    /\ ~IsFragmentStart(parser)
    /\ Become(docUnexpected(parser, start, definitions))
    /\ UNCHANGED <<source, options, start>>

Next ==
    \/ ParseStart
    \/ DocEOF
    \/ DocOperation
    \/ DocFragment
    \/ DocUnexpected

Spec == Init /\ [][Next]_vars

(***************************************************************************)
(* What the properties read.                                               *)
(***************************************************************************)
\* Parse has returned, the goroutine has panicked, or the run was cut off
Terminal == {"done", "panic", "cutoff"}

\* the calls made to the tokenizer that failed
FailedCalls ==
    {i \in DOMAIN parser.Calls : LexToken(source, parser.Calls[i]).err # Nil}

LexFailed == FailedCalls # {}

\* the token the i-th call of the tokenizer returned
TokenOfCall(i) == LexToken(source, parser.Calls[i]).token

BuiltNodes == {parser.Built[i].node : i \in DOMAIN parser.Built}

(***************************************************************************)
(* C1.  If the tokenizer fails at any point of a parse (at the first token *)
(* or at a later advance), the parse consumes no further token, builds no  *)
(* further node, and Parse returns that lexical error unchanged.           *)
(* The code returns the error of the first token only: skip, expect,       *)
(* expectKeyWord and parseFragment drop the error advance returns.         *)
(***************************************************************************)
C1_LexErrorReturned ==
    LexFailed =>
        LET first == CHOOSE i \in FailedCalls : \A j \in FailedCalls : i <= j
        IN  /\ pc = "done"
            /\ err = LexToken(source, parser.Calls[first]).err
            /\ doc = ZeroDocument
            /\ Len(parser.Calls) = first
            /\ \A i \in DOMAIN parser.Built : parser.Built[i].to < first

(***************************************************************************)
(* C2.  Every grammar rule returns a completed node or an error value and  *)
(* never stops with a run-time fault: parseArguments,                      *)
(* parseVariableDefinitions and parseArray return the n >= 1 items parsed. *)
(* The code writes the items by index into a nil slice and panics.         *)
(***************************************************************************)
C2_NoRuntimeFault == pc # "panic"

(***************************************************************************)
(* C3.  Each step of the parseDocument loop chooses the production from    *)
(* the current token alone: end-of-input stops successfully with the       *)
(* Document; `{` and the names query and mutation enter                    *)
(* parseOperationDefinition (the token is consumed, and a definition that  *)
(* is appended is an OperationDefinition); the name fragment enters        *)
(* parseFragmentDefinition; every other token fails with "Unexpected ..."  *)
(* at that token's start offset and is not consumed.                       *)
(***************************************************************************)
C3_Step ==
    pc = "parseDocument" =>
        LET token == parser.Token
            consumed == /\ Len(parser'.Calls) > Len(parser.Calls)
                        /\ parser'.Calls[Len(parser.Calls) + 1] = token.End
            appended(kind) ==
                pc' = "parseDocument" =>
                    /\ Len(definitions') = Len(definitions) + 1
                    /\ SubSeq(definitions', 1, Len(definitions)) = definitions
                    /\ definitions'[Len(definitions')].Kind = kind
                    /\ \/ options.NoLocation
                       \/ definitions'[Len(definitions')].Loc.Start = token.Start
        IN  CASE token.Kind = EOF ->
                    /\ pc' = "done"
                    /\ err' = Nil
                    /\ doc'.Kind = "Document"
                    /\ doc'.Definitions = definitions
              [] token.Kind = BRACE_L ->
                    /\ consumed
                    /\ appended("OperationDefinition")
                    /\ pc' = "parseDocument" =>
                           /\ definitions'[Len(definitions')].Operation = "query"
                           /\ definitions'[Len(definitions')].Name = ZeroName
              [] token.Kind = NAME /\ token.Value \in {"query", "mutation"} ->
                    /\ consumed
                    /\ appended("OperationDefinition")
                    /\ pc' = "parseDocument" =>
                           definitions'[Len(definitions')].Operation = token.Value
              [] token.Kind = NAME /\ token.Value = "fragment" ->
                    /\ consumed
                    /\ appended("FragmentDefinition")
              [] OTHER ->
                    /\ pc' = "done"
                    /\ err' = NewSyntaxError(SourceRef, token.Start,
                                  "Unexpected " \o GetTokenDesc(token))
                    /\ doc' = ZeroDocument
                    /\ parser' = parser

C3_DispatchOnCurrentToken == [][C3_Step]_vars

\* an unexpected token after a definition, and a document that ended well
C3_Witness ==
    /\ pc = "done"
    /\ options = DefaultOptions
    /\ Len(definitions) = 1
    /\ definitions[1].Kind = "OperationDefinition"
    /\ err.kind = "SyntaxError"
    /\ err.Message = "Unexpected Name \"a\""
    /\ err.Position = parser.Token.Start
    /\ parser.Token.Start > 0

(***************************************************************************)
(* C4.  The first failure aborts the whole parse: whenever Parse returns   *)
(* an error the Document returned holds no definition (it is the zero      *)
(* Document), however many definitions had been parsed, and the error is   *)
(* the one error of the failing call.                                      *)
(***************************************************************************)
C4_ErrorMeansNoDocument ==
    (pc = "done" /\ err # Nil) =>
        /\ doc.Definitions = <<>>
        /\ doc = ZeroDocument
        /\ err.kind \in {"SyntaxError", "LexError"}

\* Parse returned an error after a definition had been parsed
C4_Witness ==
    /\ pc = "done"
    /\ err.kind = "SyntaxError"
    /\ Len(definitions) >= 1
    /\ doc.Definitions = <<>>

(***************************************************************************)
(* C5.  parseType wraps types in source order: `[` Int `]` `!` yields      *)
(* NonNullType(ListType(NamedType(Int))) and `[` Int `!` `]` yields        *)
(* ListType(NonNullType(NamedType(Int))).                                  *)
(* The code opens a list type on `{` (BRACE_L), not on `[`: at `[` it      *)
(* fails with "Expected Name, found [".                                    *)
(***************************************************************************)
\* a source whose variable definition has the type `tokens`
TypeSource(tokens) ==
    <<N("query"), N("a"), P(PAREN_L), P(COLON), P(DOLLAR), N("a")>>
        \o tokens \o <<P(PAREN_R), P(BRACE_L), N("a"), P(BRACE_R)>>

IsNamedInt(n) == n.Kind = "NamedType" /\ n.Name.Value = "Int"

C5_TypeWrapping ==
    pc \in Terminal =>
        /\ source = TypeSource(<<P(BRACKET_L), N("Int"), P(BRACKET_R), P(BANG)>>)
            => \E n \in BuiltNodes :
                   /\ n.Kind = "NonNullType"
                   /\ n.Type.Kind = "ListType"
                   /\ IsNamedInt(n.Type.Type)
        /\ source = TypeSource(<<P(BRACKET_L), N("Int"), P(BANG), P(BRACKET_R)>>)
            => \E n \in BuiltNodes :
                   /\ n.Kind = "ListType"
                   /\ n.Type.Kind = "NonNullType"
                   /\ IsNamedInt(n.Type.Type)

(***************************************************************************)
(* C6.  A selection set with no selection is rejected.  As claimed: the    *)
(* input `query { }` fails with a syntax error that describes the `}` and  *)
(* is positioned at its start offset.                                      *)
(***************************************************************************)
DescribesBraceR(error) ==
    /\ error.kind = "SyntaxError"
    /\ error.Message \in {"Expected Name, found }", "Unexpected }"}

Consumed(i) == \E c \in DOMAIN parser.Calls : parser.Calls[c] = 3 * (i - 1) + 2

DirectiveValueSource(tokens) ==
    <<P(BRACE_L), N("a"), P(AT), N("a"), P(COLON)>> \o tokens
        \o <<P(BRACE_R)>>

C8_ListOpenRoutesToArray ==
    (pc \in Terminal
        /\ source = DirectiveValueSource(<<P(BRACKET_L), P(BRACKET_R)>>)) =>
        /\ \E n \in BuiltNodes : n.Kind = "Array" /\ n.Values = <<>>
        /\ pc = "done"
        /\ err = Nil

(***************************************************************************)
(* C9.  The Location of every constructed node has Start equal to the      *)
(* start offset of the first token of its production and End equal to the  *)
(* end offset of the last token consumed before the node was constructed   *)
(* (Parser.PrevEnd at that moment).  Checked for every node built while    *)
(* the tokenizer had not failed, when locations are recorded.              *)
(***************************************************************************)
C9_LocationSpansTokens ==
    \A i \in DOMAIN parser.Built :
        LET b == parser.Built[i]
        IN  (~options.NoLocation /\ \A f \in FailedCalls : b.to < f) =>
                /\ b.from < b.to
                /\ b.node.Loc.Start = TokenOfCall(b.from).Start
                /\ b.node.Loc.End = TokenOfCall(b.to - 1).End
                /\ b.node.Loc.Start <= b.node.Loc.End

\* a document whose operation spans several tokens was parsed
C9_Witness ==
    /\ pc = "done"
    /\ err = Nil
    /\ options = DefaultOptions
    /\ \E i \in DOMAIN parser.Built :
           /\ parser.Built[i].node.Kind = "OperationDefinition"
           /\ parser.Built[i].to - parser.Built[i].from >= 3
           /\ parser.Built[i].node.Loc.Start > 0
    /\ \E i \in DOMAIN parser.Built :
           parser.Built[i].node.Kind = "Document"

(***************************************************************************)
(* C10.  The options NoLocation and NoSource change only the locations:    *)
(* the tokens consumed, the nodes built, the resulting tree and the error  *)
(* are those of the parse with the default options, except that with       *)
(* NoLocation every Loc is absent and with NoSource every Loc has no       *)
(* Source.                                                                 *)
(***************************************************************************)
NodeFields ==
    {"Name", "Alias", "Type", "Variable", "DefaultValue", "TypeCondition",
     "SelectionSet"}

ListFields ==
    {"Definitions", "Selections", "Directives", "Arguments",
     "VariableDefinitions", "Values"}

\* the location the options leave of a location recorded by default
RelocateLoc(location, opts) ==
    IF location = ZeroLocation \/ opts.NoLocation THEN ZeroLocation
    ELSE IF opts.NoSource THEN [location EXCEPT !.Source = NoSourceRef]
    ELSE location

RECURSIVE Relocate(_, _)
\* the tree `node` with every location replaced by what the options leave
Relocate(node, opts) ==
    [f \in DOMAIN node |->
        IF f = "Loc" THEN RelocateLoc(node[f], opts)
        ELSE IF f \in NodeFields \/ (f = "Value" /\ node.Kind \notin {"Name", ""})
        THEN Relocate(node[f], opts)
        ELSE IF f \in ListFields
        THEN [i \in DOMAIN node[f] |-> Relocate(node[f][i], opts)]
        ELSE node[f]]

C10_OptionsChangeOnlyLocations ==
    pc \in Terminal =>
        LET default == Parse(source, DefaultOptions)
        IN  /\ pc = default.pc
            /\ err = default.err
            /\ parser.Calls = default.parser.Calls
            /\ doc = Relocate(default.doc, options)
            /\ Len(parser.Built) = Len(default.parser.Built)
            /\ \A i \in DOMAIN parser.Built :
                   /\ parser.Built[i].from = default.parser.Built[i].from
                   /\ parser.Built[i].to = default.parser.Built[i].to
                   /\ parser.Built[i].node =
                          Relocate(default.parser.Built[i].node, options)

\* a document was parsed without sources and differs from the default one
C10_Witness ==
    /\ pc = "done"
    /\ err = Nil
    /\ options = [NoLocation |-> FALSE, NoSource |-> TRUE]
    /\ Len(doc.Definitions) = 2
    /\ doc.Loc.Source = NoSourceRef
    /\ doc.Loc.End > 0
    /\ doc # Parse(source, DefaultOptions).doc

(***************************************************************************)
(* C11.  Whenever many returns without error its result holds at least one *)
(* item and the items are in the order they were parsed; so every          *)
(* SelectionSet node holds at least one Selection, in source order.        *)
(***************************************************************************)
\* the nodes of a list start one after the other in the source
InSourceOrder(nodes) ==
    \A j \in 1..(Len(nodes) - 1) : nodes[j].Loc.Start < nodes[j + 1].Loc.Start

C11_ManyNonEmptyInOrder ==
    /\ \A i \in DOMAIN parser.Many :
           /\ Len(parser.Many[i]) >= 1
           /\ ~options.NoLocation => InSourceOrder(parser.Many[i])
    /\ \A n \in BuiltNodes :
           n.Kind = "SelectionSet" =>
               /\ Len(n.Selections) >= 1
               /\ \E i \in DOMAIN parser.Many : parser.Many[i] = n.Selections
               /\ ~options.NoLocation => InSourceOrder(n.Selections)

\* a selection set of two selections was parsed
C11_Witness ==
    /\ pc = "done"
    /\ err = Nil
    /\ options = DefaultOptions
    /\ \E n \in BuiltNodes :
           /\ n.Kind = "SelectionSet"
           /\ Len(n.Selections) = 2
           /\ n.Selections[1].Name.Value = "a"
           /\ n.Selections[2].Name.Value = "b"

(***************************************************************************)
(* C12.  peek(kind) is the test of the current token's kind and changes    *)
(* nothing; skip(kind) on a current token of another kind returns false    *)
(* and leaves the parser (current token and PrevEnd included) as it was;   *)
(* on a current token of that kind skip returns true, sets PrevEnd to the  *)
(* end of the current token and calls the tokenizer exactly once, there:   *)
(* the token it returns becomes the current token.                         *)
(***************************************************************************)
TokenKinds ==
    {EOF, BANG, DOLLAR, PAREN_L, PAREN_R, SPREAD, COLON, EQUALS, AT,
     BRACKET_L, BRACKET_R, BRACE_L, BRACE_R, NAME, INT, STRING_}

C12_PeekSkipFrame ==
    pc # "Parse" =>
        \A Kind \in TokenKinds :
            LET s == skip(parser, Kind)
                next == LexToken(parser.Source, parser.Token.End)
            IN  /\ peek(parser, Kind) = (parser.Token.Kind = Kind)
                /\ parser.Token.Kind # Kind =>
                       /\ s.node = FALSE
                       /\ s.parser = parser
                /\ parser.Token.Kind = Kind =>
                       /\ s.node = TRUE
                       /\ s.parser.PrevEnd = parser.Token.End
                       /\ s.parser.Calls
                              = Append(parser.Calls, parser.Token.End)
                       /\ next.err = Nil => s.parser.Token = next.token
                       /\ next.err # Nil => s.parser.Token = parser.Token
                       /\ [s.parser EXCEPT !.PrevEnd = parser.PrevEnd,
                                           !.Calls = parser.Calls,
                                           !.Token = parser.Token] = parser

\* parseDocument is at a `{` after a first definition: skip(EOF) returns
\* false there and skip(BRACE_L) moves to the name that follows
C12_Witness ==
    /\ pc = "parseDocument"
    /\ Len(definitions) = 1
    /\ parser.Token.Kind = BRACE_L
    /\ ~skip(parser, EOF).node
    /\ skip(parser, BRACE_L).node
    /\ skip(parser, BRACE_L).parser.Token.Kind = NAME
    /\ skip(parser, BRACE_L).parser.PrevEnd > parser.PrevEnd

(***************************************************************************)
(* C13.  expect(kind) and expectKeyWord(value) on a current token that     *)
(* does not match fail with a SyntaxError at the Start of that token and   *)
(* leave the parser unchanged; on a matching token they return that token  *)
(* and advance by one tokenizer call.  Every SyntaxError Parse returns     *)
(* carries the source and the start offset of the token that is current    *)
(* when the parse stops.                                                   *)
(***************************************************************************)
\* the result `e` of an expectation on `p`, which matched or did not
Expectation(p, e, matched) ==
    IF matched
    THEN /\ e.err = Nil
         /\ e.node = p.Token
         /\ e.parser.PrevEnd = p.Token.End
         /\ e.parser.Calls = Append(p.Calls, p.Token.End)
         /\ LET next == LexToken(p.Source, p.Token.End)
            IN  e.parser.Token = IF next.err = Nil THEN next.token ELSE p.Token
    ELSE /\ e.err.kind = "SyntaxError"
         /\ e.err.Source = SourceRef
         /\ e.err.Position = p.Token.Start
         /\ e.parser = p

C13_ExpectErrors ==
    /\ parser.Token.Kind \in TokenKinds =>
           /\ \A kind \in TokenKinds :
                  Expectation(parser, expect(parser, kind),
                              parser.Token.Kind = kind)
           /\ \A value \in Names :
                  Expectation(parser, expectKeyWord(parser, value),
                              parser.Token.Kind = NAME
                                  /\ parser.Token.Value = value)
    /\ (pc = "done" /\ err.kind = "SyntaxError") =>
           /\ err.Source = SourceRef
           /\ err.Position = parser.Token.Start

\* a parse stopped by an expectation that failed past the first token
C13_Witness ==
    /\ pc = "done"
    /\ err.kind = "SyntaxError"
    /\ err.Position > 0
    /\ err.Message = "Expected \"on\", found Name \"a\""
    /\ expectKeyWord(parser, "on").err = err

(***************************************************************************)
(* C14.  A fragment definition whose fragment name is `on` is rejected:    *)
(* when the token after a leading `fragment` has the text `on`, Parse      *)
(* fails with an "Unexpected" syntax error positioned at the start of that *)
(* token, which is not consumed (`fragment on on a { a }`).                *)
(***************************************************************************)
C14_FragmentNamedOnRejected ==
    (/\ pc \in Terminal
     /\ Len(source) >= 2
     /\ source[1] = N("fragment")
     /\ source[2].Value = "on") =>
        /\ pc = "done"
        /\ doc = ZeroDocument
        /\ err = NewSyntaxError(SourceRef, 3,
                     "Unexpected " \o GetTokenDesc(LexToken(source, 3).token))
        /\ parser.Calls = <<0, 2>>
        /\ parser.Token = LexToken(source, 3).token
        /\ parser.Built = <<>>

\* `fragment on on a { a }` was refused at the first `on`
C14_Witness ==
    /\ pc = "done"
    /\ source = <<N("fragment"), N("on"), N("on"), N("a"),
                  P(BRACE_L), N("a"), P(BRACE_R)>>
    /\ err = NewSyntaxError(SourceRef, 3, "Unexpected Name \"on\"")
    /\ parser.Token.Start = 3

(***************************************************************************)
(* C15.  An operation that starts with `{` parses to an                    *)
(* OperationDefinition with Operation "query", no name, no variable        *)
(* definitions and an empty directive list, whose selection set is the     *)
(* braced set; `{ hero { name } }` yields a Document with exactly one such *)
(* definition, with one Field hero holding a nested selection set with one *)
(* Field name.                                                             *)
(***************************************************************************)
\* a Field `name` without alias, arguments or directives
IsPlainField(n, name) ==
    /\ n.Kind = "Field"
    /\ n.Name.Kind = "Name"
    /\ n.Name.Value = name
    /\ n.Alias = ZeroName
    /\ n.Arguments = <<>>
    /\ n.Directives = <<>>

C15_AnonymousQuery ==
    /\ \A i \in DOMAIN parser.Built :
           LET b == parser.Built[i]
           IN  (b.node.Kind = "OperationDefinition"
                    /\ TokenOfCall(b.from).Kind = BRACE_L) =>
                   /\ b.node.Operation = "query"
                   /\ b.node.Name = ZeroName
                   /\ b.node.VariableDefinitions = <<>>
                   /\ b.node.Directives = <<>>
                   /\ b.node.SelectionSet.Kind = "SelectionSet"
                   /\ b.node.SelectionSet.Loc = b.node.Loc
                   /\ i > 1
                   /\ parser.Built[i - 1] =
                          [node |-> b.node.SelectionSet,
                           from |-> b.from, to |-> b.to]
    /\ (/\ pc \in Terminal
        /\ source = <<P(BRACE_L), N("hero"), P(BRACE_L), N("name"),
                      P(BRACE_R), P(BRACE_R)>>) =>
           /\ pc = "done"
           /\ err = Nil
           /\ doc.Kind = "Document"
           /\ Len(doc.Definitions) = 1
           /\ LET oDef == doc.Definitions[1]
              IN  /\ oDef.Kind = "OperationDefinition"
                  /\ oDef.Operation = "query"
                  /\ oDef.Name = ZeroName
                  /\ Len(oDef.SelectionSet.Selections) = 1
                  /\ LET hero == oDef.SelectionSet.Selections[1]
                     IN  /\ IsPlainField(hero, "hero")
                         /\ hero.SelectionSet.Kind = "SelectionSet"
                         /\ Len(hero.SelectionSet.Selections) = 1
                         /\ IsPlainField(hero.SelectionSet.Selections[1],
                                         "name")
                         /\ hero.SelectionSet.Selections[1].SelectionSet
                                = ZeroSelectionSet

\* `{ hero { name } }` was parsed
C15_Witness ==
    /\ pc = "done"
    /\ err = Nil
    /\ source = <<P(BRACE_L), N("hero"), P(BRACE_L), N("name"),
                  P(BRACE_R), P(BRACE_R)>>
    /\ Len(doc.Definitions) = 1
    /\ doc.Definitions[1].Operation = "query"

(***************************************************************************)
(* C16.  parseField treats the first name as an alias if and only if a     *)
(* `:` token immediately follows it: for name `:` name the Field has       *)
(* Alias = first name and Name = second name; for a name not followed by   *)
(* `:` the Field has an empty Alias and Name = that name.  Checked for     *)
(* every Field built while the tokenizer had not failed.                   *)
(***************************************************************************)
\* the Name node that parseName makes of a token
IsNameOf(n, token) ==
    /\ n.Kind = "Name"
    /\ token.Kind = NAME
    /\ n.Value = token.Value
    /\ ~options.NoLocation =>
           n.Loc.Start = token.Start /\ n.Loc.End = token.End

C16_AliasIffColon ==
    \A i \in DOMAIN parser.Built :
        LET b == parser.Built[i]
        IN  (b.node.Kind = "Field" /\ \A f \in FailedCalls : b.to < f) =>
                IF TokenOfCall(b.from + 1).Kind = COLON
                THEN /\ IsNameOf(b.node.Alias, TokenOfCall(b.from))
                     /\ IsNameOf(b.node.Name, TokenOfCall(b.from + 2))
                ELSE /\ b.node.Alias = ZeroName
                     /\ IsNameOf(b.node.Name, TokenOfCall(b.from))

\* `{ a : b }` was parsed to a field b with the alias a
C16_Witness ==
    /\ pc = "done"
    /\ err = Nil
    /\ source = <<P(BRACE_L), N("a"), P(COLON), N("b"), P(BRACE_R)>>
    /\ \E n \in BuiltNodes :
           /\ n.Kind = "Field"
           /\ n.Alias.Value = "a"
           /\ n.Name.Value = "b"

(***************************************************************************)
(* C17.  When the first token of the input is end-of-input (the empty      *)
(* source), Parse returns a Document with zero definitions and no error.   *)
(***************************************************************************)
C17_EmptySource ==
    (pc \in Terminal /\ LexToken(source, 0).token.Kind = EOF
        /\ LexToken(source, 0).err = Nil) =>
        /\ source = <<>>
        /\ pc = "done"
        /\ err = Nil
        /\ doc.Kind = "Document"
        /\ doc.Definitions = <<>>
        /\ definitions = <<>>

\* the empty source was parsed
C17_Witness ==
    /\ pc = "done"
    /\ source = <<>>
    /\ parser.Token.Kind = EOF
    /\ doc.Kind = "Document"
    /\ err = Nil

(***************************************************************************)
(* C18.  After a spread token `...`, parseFragment takes the               *)
(* InlineFragment branch only when the next token is a name-kind token     *)
(* whose text is `on`: a token of another kind with the text `on` (a       *)
(* string literal) is not consumed as the keyword.                         *)
(* The code tests only the text of the token (Token.Value == "on"), so     *)
(* the string literal is consumed and the inline-fragment branch taken.    *)
(***************************************************************************)
C18_OnKeywordIsName ==
    \A i \in 1..(Len(source) - 1) :
        (/\ source[i] = P(SPREAD)
         /\ source[i + 1].Kind # NAME
         /\ source[i + 1].Value = "on"
         /\ Consumed(i)) =>
            /\ ~Consumed(i + 1)
            /\ pc \in Terminal => err.kind = "SyntaxError"
                                      /\ err.Position = 3 * i

(***************************************************************************)
(* C19.  parseVariableDefinition consumes its parts in this order: an      *)
(* optional `=` followed by a constant value (the default), then a         *)
(* required `:`, then the variable (`$` and a name), then the type.  So a  *)
(* definition that begins with the variable fails with                     *)
(* "Expected :, found $" without consuming a token, and the default value  *)
(* never follows the type.  Checked for every VariableDefinition built     *)
(* while the tokenizer had not failed.                                     *)
(***************************************************************************)
\* the i-th built node is a VariableDefinition whose parts were consumed in
\* the order default, `:`, variable, type
PartsInOrder(i) ==
    LET b == parser.Built[i]
    IN  \E v, t \in 1..(i - 1) :
            LET bv == parser.Built[v]
                bt == parser.Built[t]
            IN  /\ bv.node = b.node.Variable
                /\ bv.node.Kind = "Variable"
                /\ bt.node = b.node.Type
                /\ TokenOfCall(bv.from).Kind = DOLLAR
                /\ TokenOfCall(bv.from - 1).Kind = COLON
                /\ bt.from = bv.to
                /\ bt.to = b.to
                /\ IF TokenOfCall(b.from).Kind = EQUALS
                   THEN \E d \in 1..(i - 1) :
                            /\ parser.Built[d].node = b.node.DefaultValue
                            /\ parser.Built[d].from = b.from + 1
                            /\ parser.Built[d].to = bv.from - 1
                   ELSE /\ b.node.DefaultValue = NilNode
                        /\ bv.from = b.from + 1

C19_VariableDefinitionOrder ==
    /\ \A i \in DOMAIN parser.Built :
           (/\ parser.Built[i].node.Kind = "VariableDefinition"
            /\ \A f \in FailedCalls : parser.Built[i].to < f) =>
               PartsInOrder(i)
    /\ (/\ pc \in Terminal
        /\ Len(source) >= 4
        /\ SubSeq(source, 1, 4)
               = <<N("query"), N("a"), P(PAREN_L), P(DOLLAR)>>) =>
           /\ pc = "done"
           /\ err = NewSyntaxError(SourceRef, 9, "Expected :, found $")
           /\ parser.Calls = <<0, 2, 5, 8>>

\* a variable definition with a default value was built
C19_Witness ==
    \E i \in DOMAIN parser.Built :
        /\ parser.Built[i].node.Kind = "VariableDefinition"
        /\ parser.Built[i].node.DefaultValue.Kind = "Array"
        /\ parser.Built[i].node.Type.Kind = "NamedType"
        /\ PartsInOrder(i)

(***************************************************************************)
(* C20.  For every token stream delivered by a tokenizer that never fails, *)
(* Parse terminates with a Document or a SyntaxError: no loop of           *)
(* parseDocument, many, any or parseDirectives runs forever, and every     *)
(* tokenizer call but the one that skips end-of-input is made at a later   *)
(* offset than the call before it.                                         *)
(* No run with such a tokenizer is cut off, but the runs that collect an   *)
(* argument, a variable definition or a list item end in the runtime       *)
(* fault of C2 instead of a Document or a SyntaxError.                     *)
(***************************************************************************)
\* the tokenizer fails on no lexeme of the source
TokenizerNeverFails == \A i \in DOMAIN source : source[i].Kind # ILLEGAL

C20_Terminates ==
    TokenizerNeverFails =>
        /\ pc \notin {"panic", "cutoff"}
        /\ pc = "done" =>
               \/ err = Nil /\ doc.Kind = "Document"
               \/ err.kind = "SyntaxError" /\ doc = ZeroDocument
        /\ \A i \in 1..(Len(parser.Calls) - 1) :
               \/ parser.Calls[i] < parser.Calls[i + 1]
               \/ TokenOfCall(i).Kind = EOF

(***************************************************************************)
(* C21.  With a tokenizer that returns a token starting at or after the    *)
(* requested offset, in every parser state PrevEnd <= Token.Start <=       *)
(* Token.End, and PrevEnd never decreases: PrevEnd is the offset of the    *)
(* latest tokenizer call, the offsets of the calls never decrease, and the *)
(* token a call returns starts at or after the offset of the call.         *)
(***************************************************************************)
C21_CursorMovesForward ==
    /\ \A i \in DOMAIN parser.Calls :
           i \notin FailedCalls =>
               /\ parser.Calls[i] <= TokenOfCall(i).Start
               /\ TokenOfCall(i).Start <= TokenOfCall(i).End
    /\ \A i \in 1..(Len(parser.Calls) - 1) :
           parser.Calls[i] <= parser.Calls[i + 1]
    /\ parser.Calls # <<>> => parser.PrevEnd = parser.Calls[Len(parser.Calls)]
    /\ (parser.Token.Kind \in TokenKinds /\ ~LexFailed) =>
           /\ parser.Token = TokenOfCall(Len(parser.Calls))
           /\ parser.PrevEnd <= parser.Token.Start
           /\ parser.Token.Start <= parser.Token.End

\* a parse of several tokens has ended with the cursor past the start
C21_Witness ==
    /\ pc = "done"
    /\ err = Nil
    /\ ~LexFailed
    /\ Len(parser.Calls) >= 5
    /\ parser.PrevEnd > 0
    /\ parser.PrevEnd <= parser.Token.Start

====
